---- MODULE Spec2Model ----
(***************************************************************************)
(* Model of the mail gateway: the submission (SMTP) session handlers of    *)
(* mail_server.py / smtp_handler.py and the mailbox store of storage.py.   *)
(*                                                                         *)
(* A string that the code splits or decodes is the sequence of its         *)
(* NUL-free fields: "a\0b\0c" is <<a, b, c>>, a plain string is <<a>>.     *)
(* A field is an address [local, domain], standing for local@domain, or    *)
(* some other text [text].                                                 *)
(***************************************************************************)
EXTENDS Integers, Sequences, FiniteSets, TLC

None == [py |-> "None"]     \* Python None
Unset == [py |-> "unset"]   \* attribute that was never assigned
Error == [py |-> "Error"]   \* an exception raised by a conversion
Null == -1                  \* an integer column that has no value yet

\* ---------------------------------------------------------------- bounds
MaxEmails == 2          \* save_email calls started in one run of the store
MaxClock == 1           \* values utcnow() takes: 0..MaxClock

\* ------------------------------------------------------------- constants
UidOffset == 1000       \* new_email.uid = new_email.id + 1000

\* ---------------------------------------------------------------- values
Conns == {"c1", "c2"}   \* submission connections, one CustomSMTP and session each

Domain == "weizart.com"
Alice == [local |-> "alice", domain |-> "weizart.com"]
Bob == [local |-> "bob", domain |-> "weizart.com"]
Eve == [local |-> "eve", domain |-> "other.org"]
Addresses == {Alice, Bob, Eve}
Recipients == {Alice, Bob}   \* the addresses of the serving domain
Carol == [local |-> "carol", domain |-> "weizart.com"]   \* no user has it
Text(x) == [text |-> x]
Str(fields) == [fields |-> fields]   \* a Python str, as its NUL-separated fields
Passwords == {Text("pwA"), Text("pwB")}

\* bcrypt.hashpw / bcrypt.checkpw, the salt abstracted away
Hash(password) == <<"bcrypt", password>>
checkpw(password, password_hash) == Hash(password) = password_hash

\* the users table as provisioned by the administrator
UserTable ==
  { [email |-> Alice, password_hash |-> Hash(Str(<<Text("pwA")>>))],
    [email |-> Bob, password_hash |-> Hash(Str(<<Text("pwB")>>))] }

\* address.endswith("@" + config.domain)
EndsWithDomain(address) == address.domain = Domain

\* ----------------------------------------------------- base64 credentials
\* what a client can put after the mechanism name
B64(text) == [b64 |-> TRUE, utf8 |-> TRUE, text |-> text]
BadB64 == [b64 |-> FALSE, utf8 |-> TRUE, text |-> <<>>]
NonUtf8 == [b64 |-> TRUE, utf8 |-> FALSE, text |-> <<>>]

\* AUTH PLAIN: authzid NUL username NUL password; one with a field too few
PlainCredentials ==
  { B64(<<Text(""), Alice, Text("pwA")>>), B64(<<Text(""), Alice, Text("pwB")>>),
    B64(<<Text(""), Bob, Text("pwB")>>), B64(<<Text(""), Eve, Text("pwA")>>),
    B64(<<Alice, Text("pwA")>>), BadB64, NonUtf8 }
\* AUTH LOGIN: a username or a password
LoginCredentials ==
  { B64(<<x>>) : x \in Addresses \cup Passwords } \cup { BadB64, NonUtf8 }

\* base64.b64decode(credentials).decode('utf-8')
b64decode_utf8(credentials) ==
  IF credentials.b64 /\ credentials.utf8 THEN Str(credentials.text) ELSE Error

Mechanisms == {"PLAIN", "LOGIN", "login", "CRAM-MD5"}
Upper(token) == IF token = "login" THEN "LOGIN" ELSE token

\* the argument of the AUTH command: None, "MECH" or "MECH credentials"
AuthArgs ==
  {None} \cup { [parts |-> <<m>>] : m \in Mechanisms }
         \cup { [parts |-> <<"PLAIN", cr>>] : cr \in PlainCredentials }
         \cup { [parts |-> <<"LOGIN", cr>>] : cr \in LoginCredentials }
         \cup { [parts |-> <<"login", B64(<<Alice>>)>>] }
         \cup { [parts |-> <<"CRAM-MD5", BadB64>>] }

\* ---------------------------------------------------------------- replies
R530 == "530 5.7.0 Authentication required"
R250 == "250 OK"
R550 == "550 Invalid recipient domain"
R535 == "535 5.7.8 Authentication credentials invalid"
R235 == "235 2.7.0 Authentication successful"
R334 == "334 "
R334User == "334 VXNlcm5hbWU6"
R334Pass == "334 UGFzc3dvcmQ6"
R501 == "501 Syntax error in parameters or arguments"
R504 == "504 Unrecognized authentication type"
R500 == "500 5.5.2 Authentication failed"

\* ------------------------------------------------------------- messages
\* a message as handed to handle_message: its From and To headers and the
\* bytes it serialises to
Bytes(x) == [type |-> "bytes", val |-> x]
DataSet == {Bytes("m1"), Bytes("m2")}
Messages ==
  { [From |-> Alice, To |-> <<Bob>>, data |-> Bytes("m1")],
    [From |-> Bob, To |-> <<Alice, Eve>>, data |-> Bytes("m2")],
    [From |-> Eve, To |-> <<Alice, Bob>>, data |-> Bytes("m1")] }
\* message_from_bytes(email_data).get('subject', '')
Subject(email_data) == <<"subject", email_data.val>>

\* ------------------------------------------------------------ encryption
SecretKey == "k1"       \* config.secret_key, generated when the process starts
\* config.cipher_suite.encrypt(data): a Fernet token, as bytes
Encrypt(data) == Bytes([key |-> SecretKey, plain |-> data])
\* bytes.decode('utf-8') and str.encode('utf-8')
decode_utf8(b) ==
  IF b # Error /\ b # None /\ b.type = "bytes" THEN [b EXCEPT !.type = "str"] ELSE Error
encode_utf8(s) ==
  IF s # Error /\ s # None /\ s.type = "str" THEN [s EXCEPT !.type = "bytes"] ELSE Error
\* config.cipher_suite.decrypt(token): the plaintext, or InvalidToken
Decrypt(token) ==
  IF token = Error \/ token = None \/ token.type # "bytes" THEN Error
  ELSE IF token.val.key # SecretKey THEN Error
  ELSE token.val.plain

VARIABLES
  \* submission session, per connection
  authenticated,        \* session.authenticated
  username,             \* session.username
  auth_login_stage,     \* session.auth_login_stage
  auth_username,        \* session.auth_username
  server_authenticated, \* the attribute 'authenticated' of the CustomSMTP object
  mail_from,            \* envelope.mail_from
  rcpt_tos,             \* envelope.rcpt_tos
  last,                 \* the last command handled: connection, verb, reply
  delivered,            \* per connection: the save_email calls made for it
  \* the database
  folders,              \* committed rows of table folders
  emails,               \* committed rows of table emails
  clock,                \* datetime.utcnow()
  \* store clients (tasks calling MailStorage)
  pc, call, folder_obj, new_email, result,
  writeLock,            \* the connection holding SQLite's write lock
  log,                  \* save_email calls in commit order, with the UID returned
  got,                  \* the last get_emails call and what it returned
  \* retrieval sessions, per connection (one IMAPProtocol each)
  buffer,               \* self.buffer: the text received and not yet split off
  tasks,                \* the handle_command tasks created and not yet over
  ndispatched,          \* how many handle_command tasks were created
  current_user,         \* self.current_user
  selected_mailbox,     \* self.selected_mailbox
  authenticated_users,  \* the keys of self.authenticated_users
  sent,                 \* the last response written to the transport
  closed                \* transport.close() was called

smtpVars == <<authenticated, username, auth_login_stage, auth_username,
              server_authenticated, mail_from, rcpt_tos, last, delivered>>
dbVars == <<folders, emails, clock>>
procVars == <<pc, call, folder_obj, new_email, result, writeLock, log, got>>
imapVars == <<buffer, tasks, ndispatched, current_user, selected_mailbox,
              authenticated_users, sent, closed>>
vars == <<smtpVars, dbVars, procVars, imapVars>>

Max(S) == CHOOSE x \in S : \A y \in S : y <= x

\* ======================================================== the database
\* Integer primary key of a SQLite table: the largest id in the table plus one
NextId(rows) == IF rows = {} THEN 1 ELSE Max({r.id : r \in rows}) + 1

\* select(Folder).where(user_email == recipient, name == folder), scalar_one_or_none
SelectFolder(fs, recipient, folder) ==
  LET found == {f \in fs : f.user_email = recipient /\ f.name = folder}
  IN IF found = {} THEN None ELSE CHOOSE f \in found : TRUE

\* a message row of the data model: the attributes the store writes and reads
\* (sender, recipient, subject, encrypted body, folder, received timestamp),
\* with id and uid unset until the insert and the UID assignment
Message(given) ==
  [ id |-> Null, uid |-> Null, recipient |-> given.recipient,
    sender |-> given.sender, subject |-> given.subject,
    content |-> given.content, folder_id |-> given.folder.id,
    received_at |-> given.received_at, flags |-> {} ]

\* the Email row save_email builds, before flush gives it an id
NewEmail(recipient, sender, email_data, folderRow, now) ==
  Message([ recipient |-> recipient, sender |-> sender,
            subject |-> Subject(email_data),
            content |-> decode_utf8(Encrypt(email_data)),
            folder |-> folderRow, received_at |-> now ])

\* save_email run without interruption on the tables db = [folders, emails]:
\* the new tables and the UID returned
SaveEmailSeq(db, recipient, sender, email_data, folder, now) ==
  LET old == SelectFolder(db.folders, recipient, folder)
      fobj == IF old = None
              THEN [id |-> NextId(db.folders), user_email |-> recipient, name |-> folder]
              ELSE old
      row == NewEmail(recipient, sender, email_data, fobj, now)
      id == NextId(db.emails)
      uid == id + UidOffset
  IN [ folders |-> db.folders \cup {fobj},
       emails |-> db.emails \cup {[row EXCEPT !.id = id, !.uid = uid]},
       uid |-> uid ]

\* ================================================== submission sessions
sessionVars == <<authenticated, username, auth_login_stage, auth_username>>
envelopeVars == <<mail_from, rcpt_tos>>
storeVars == <<dbVars, procVars>>

\* what a handler returns, with the mechanism and the event it logged
Reply(c, verb, mech, event, text) ==
  last' = [conn |-> c, cmd |-> verb, mech |-> mech, event |-> event,
           reply |-> text, arg |-> None]

\* the same for a command that carries an address or a message
ReplyTo(c, verb, argument, event, text) ==
  last' = [conn |-> c, cmd |-> verb, mech |-> "", event |-> event,
           reply |-> text, arg |-> argument]

\* CustomSMTP.authenticate_user; dbok is false when the user lookup raises
authenticate_user(user, password, dbok) ==
  /\ dbok
  /\ \E u \in UserTable :
        /\ Str(<<u.email>>) = user
        /\ checkpw(password, u.password_hash)

\* the event logged when authenticate_user returns false
Refused(dbok) == IF dbok THEN "rejected" ELSE "lookup_error"

\* handle_AUTH_PLAIN that records the user name before it is verified
handle_AUTH_PLAIN_RecordsUnverified(c, credentials) ==
  IF credentials = None
  THEN /\ Reply(c, "AUTH", "PLAIN", "prompt", R334)
       /\ UNCHANGED sessionVars
  ELSE LET decoded == b64decode_utf8(credentials)
           parts == IF decoded = Error THEN <<>> ELSE decoded.fields
       IN IF decoded = Error \/ Len(parts) # 3
          THEN /\ Reply(c, "AUTH", "PLAIN", "undecodable", R535)
               /\ UNCHANGED sessionVars
          ELSE \E dbok \in BOOLEAN :
               IF authenticate_user(Str(<<parts[2]>>), Str(<<parts[3]>>), dbok)
               THEN /\ authenticated' = [authenticated EXCEPT ![c] = TRUE]
                    /\ username' = [username EXCEPT ![c] = Str(<<parts[2]>>)]
                    /\ Reply(c, "AUTH", "PLAIN", "verified", R235)
                    /\ UNCHANGED <<auth_login_stage, auth_username>>
               ELSE /\ username' = [username EXCEPT ![c] = Str(<<parts[2]>>)]
                    /\ Reply(c, "AUTH", "PLAIN", Refused(dbok), R535)
                    /\ UNCHANGED <<authenticated, auth_login_stage, auth_username>>

\* CustomSMTP.handle_AUTH_PLAIN
handle_AUTH_PLAIN(c, credentials) ==
  IF credentials = None
  THEN /\ Reply(c, "AUTH", "PLAIN", "prompt", R334)
       /\ UNCHANGED sessionVars
  ELSE LET decoded == b64decode_utf8(credentials)
           parts == IF decoded = Error THEN <<>> ELSE decoded.fields
       IN IF decoded = Error \/ Len(parts) # 3
          THEN /\ Reply(c, "AUTH", "PLAIN", "undecodable", R535)
               /\ UNCHANGED sessionVars
          ELSE \E dbok \in BOOLEAN :
               IF authenticate_user(Str(<<parts[2]>>), Str(<<parts[3]>>), dbok)
               THEN /\ authenticated' = [authenticated EXCEPT ![c] = TRUE]
                    /\ username' = [username EXCEPT ![c] = Str(<<parts[2]>>)]
                    /\ Reply(c, "AUTH", "PLAIN", "verified", R235)
                    /\ UNCHANGED <<auth_login_stage, auth_username>>
               ELSE /\ Reply(c, "AUTH", "PLAIN", Refused(dbok), R535)
                    /\ UNCHANGED sessionVars

\* CustomSMTP.handle_AUTH_LOGIN
handle_AUTH_LOGIN(c, credentials) ==
  LET stage == IF auth_login_stage[c] = "unset" THEN "username" ELSE auth_login_stage[c]
      decoded == IF credentials = None THEN Error ELSE b64decode_utf8(credentials)
  IN IF stage = "username"
     THEN IF credentials = None
          THEN /\ auth_login_stage' = [auth_login_stage EXCEPT ![c] = "username"]
               /\ Reply(c, "AUTH", "LOGIN", "prompt", R334User)
               /\ UNCHANGED <<authenticated, username, auth_username>>
          ELSE IF decoded = Error
          THEN /\ auth_login_stage' = [auth_login_stage EXCEPT ![c] = "None"]
               /\ Reply(c, "AUTH", "LOGIN", "undecodable", R535)
               /\ UNCHANGED <<authenticated, username, auth_username>>
          ELSE /\ auth_username' = [auth_username EXCEPT ![c] = decoded]
               /\ auth_login_stage' = [auth_login_stage EXCEPT ![c] = "password"]
               /\ Reply(c, "AUTH", "LOGIN", "prompt", R334Pass)
               /\ UNCHANGED <<authenticated, username>>
     ELSE IF stage = "password"
     THEN IF credentials = None
          THEN /\ Reply(c, "AUTH", "LOGIN", "prompt", R334)
               /\ UNCHANGED sessionVars
          ELSE IF decoded = Error
          THEN /\ auth_login_stage' = [auth_login_stage EXCEPT ![c] = "None"]
               /\ Reply(c, "AUTH", "LOGIN", "undecodable", R535)
               /\ UNCHANGED <<authenticated, username, auth_username>>
          ELSE \E dbok \in BOOLEAN :
               IF authenticate_user(auth_username[c], decoded, dbok)
               THEN /\ authenticated' = [authenticated EXCEPT ![c] = TRUE]
                    /\ username' = [username EXCEPT ![c] = auth_username[c]]
                    /\ auth_login_stage' = [auth_login_stage EXCEPT ![c] = "None"]
                    /\ Reply(c, "AUTH", "LOGIN", "verified", R235)
                    /\ UNCHANGED auth_username
               ELSE /\ auth_login_stage' = [auth_login_stage EXCEPT ![c] = "None"]
                    /\ Reply(c, "AUTH", "LOGIN", Refused(dbok), R535)
                    /\ UNCHANGED <<authenticated, username, auth_username>>
     ELSE /\ auth_login_stage' = [auth_login_stage EXCEPT ![c] = "None"]
          /\ Reply(c, "AUTH", "LOGIN", "bad_stage", R500)
          /\ UNCHANGED <<authenticated, username, auth_username>>

\* CustomSMTP.handle_AUTH; arg is None or the tokens of arg.strip().split(' ', 1)
handle_AUTH(c, arg) ==
  IF arg = None
  THEN /\ Reply(c, "AUTH", "", "no_mechanism", R501)
       /\ UNCHANGED sessionVars
  ELSE LET mechanism == Upper(arg.parts[1])
           credentials == IF Len(arg.parts) > 1 THEN arg.parts[2] ELSE None
       IN IF mechanism = "PLAIN" THEN handle_AUTH_PLAIN(c, credentials)
          ELSE IF mechanism = "LOGIN" THEN handle_AUTH_LOGIN(c, credentials)
          ELSE /\ Reply(c, "AUTH", mechanism, "unsupported", R504)
               /\ UNCHANGED sessionVars

\* ------------------------------------------------- message processing
RECURSIVE SaveAll(_, _, _, _, _, _)
\* the loop of SMTPHandler.handle_message over the To headers, one database
\* session for all of them: the tables afterwards, the messages saved and the
\* save_email calls made. save_email raises for the recipients in failing
\* (a database error); the exception leaves the loop and is logged by the
\* except clause around it.
SaveAll(db, rcpts, sender, data, now, failing) ==
  IF rcpts = <<>> THEN db
  ELSE LET rcpt == Head(rcpts)
           made == [recipient |-> rcpt, sender |-> sender, data |-> data]
       IN IF ~EndsWithDomain(rcpt)
          THEN SaveAll(db, Tail(rcpts), sender, data, now, failing)
          ELSE IF rcpt \in failing
          THEN [db EXCEPT !.calls = Append(@, made @@ [ok |-> FALSE])]
          ELSE LET r == SaveEmailSeq(db, rcpt, sender, data, "INBOX", now)
                   entry == [recipient |-> rcpt, folder |-> "INBOX",
                             data |-> data, uid |-> r.uid, overlapped |-> FALSE]
               IN SaveAll([folders |-> r.folders, emails |-> r.emails,
                           saved |-> Append(db.saved, entry),
                           calls |-> Append(db.calls, made @@ [ok |-> TRUE])],
                          Tail(rcpts), sender, data, now, failing)

\* SMTPHandler.handle_message
handle_message(c, message) ==
  \E failing \in SUBSET Recipients :
    LET r == SaveAll([folders |-> folders, emails |-> emails,
                      saved |-> <<>>, calls |-> <<>>],
                     message.To, message.From, message.data, clock, failing)
    IN /\ folders' = r.folders
       /\ emails' = r.emails
       /\ log' = log \o r.saved
       /\ delivered' = [delivered EXCEPT ![c] =
                          @ \cup {r.calls[i] : i \in 1..Len(r.calls)}]

\* AsyncMessage.handle_DATA, the base class: the message is handed to
\* handle_message and the transaction answered 250
AsyncMessage_handle_DATA(c, message) ==
  /\ handle_message(c, message)
  /\ ReplyTo(c, "DATA", message, "accepted", R250)

NoDelivery == UNCHANGED <<folders, emails, log, delivered>>

\* handle_MAIL with the authentication test left out
SMTPHandler_handle_MAIL_NoGate(c, address) ==
  /\ mail_from' = [mail_from EXCEPT ![c] = address]
  /\ ReplyTo(c, "MAIL", address, "accepted", R250)
  /\ UNCHANGED rcpt_tos

\* SMTPHandler.handle_MAIL, the handler hook
SMTPHandler_handle_MAIL(c, address) ==
  IF ~server_authenticated[c]
  THEN /\ ReplyTo(c, "MAIL", address, "unauthenticated", R530)
       /\ UNCHANGED envelopeVars
  ELSE /\ mail_from' = [mail_from EXCEPT ![c] = address]
       /\ ReplyTo(c, "MAIL", address, "accepted", R250)
       /\ UNCHANGED rcpt_tos

\* SMTPHandler.handle_RCPT, the handler hook
SMTPHandler_handle_RCPT(c, address) ==
  IF ~server_authenticated[c]
  THEN /\ ReplyTo(c, "RCPT", address, "unauthenticated", R530)
       /\ UNCHANGED envelopeVars
  ELSE IF ~EndsWithDomain(address)
  THEN /\ ReplyTo(c, "RCPT", address, "invalid_domain", R550)
       /\ UNCHANGED envelopeVars
  ELSE /\ rcpt_tos' = [rcpt_tos EXCEPT ![c] = Append(@, address)]
       /\ ReplyTo(c, "RCPT", address, "accepted", R250)
       /\ UNCHANGED mail_from

\* handle_DATA with the authentication test left out
SMTPHandler_handle_DATA_NoGate(c, message) ==
  AsyncMessage_handle_DATA(c, message)

\* SMTPHandler.handle_DATA, the handler hook; past the gate the base class
\* AsyncMessage hands the parsed message to handle_message and answers 250
SMTPHandler_handle_DATA(c, message) ==
  IF ~server_authenticated[c]
  THEN /\ ReplyTo(c, "DATA", message, "unauthenticated", R530)
       /\ NoDelivery
  ELSE AsyncMessage_handle_DATA(c, message)

\* CustomSMTP.handle_MAIL; super() leads to the hook of the handler the
\* CustomSMTP was built with
CustomSMTP_handle_MAIL(c, address) ==
  IF ~authenticated[c]
  THEN /\ ReplyTo(c, "MAIL", address, "unauthenticated", R530)
       /\ UNCHANGED envelopeVars
  ELSE SMTPHandler_handle_MAIL(c, address)

\* CustomSMTP.handle_RCPT
CustomSMTP_handle_RCPT(c, address) ==
  IF ~authenticated[c]
  THEN /\ ReplyTo(c, "RCPT", address, "unauthenticated", R530)
       /\ UNCHANGED envelopeVars
  ELSE SMTPHandler_handle_RCPT(c, address)

\* CustomSMTP.handle_DATA
CustomSMTP_handle_DATA(c, message) ==
  IF ~authenticated[c]
  THEN /\ ReplyTo(c, "DATA", message, "unauthenticated", R530)
       /\ NoDelivery
  ELSE SMTPHandler_handle_DATA(c, message)

\* ------------------------------------------------ the commands, as steps
dataFrame == <<clock, pc, call, folder_obj, new_email, result, writeLock, got>>

AUTHFrom(c, args) ==
  /\ \E arg \in args : handle_AUTH(c, arg)
  /\ UNCHANGED <<server_authenticated, envelopeVars, delivered, storeVars, imapVars>>

AUTH(c) == AUTHFrom(c, AuthArgs)


MAIL(c) ==
  /\ \E address \in Addresses : CustomSMTP_handle_MAIL(c, address)
  /\ UNCHANGED <<sessionVars, server_authenticated, delivered, storeVars, imapVars>>

RCPT(c) ==
  /\ \E address \in Addresses : CustomSMTP_handle_RCPT(c, address)
  /\ UNCHANGED <<sessionVars, server_authenticated, delivered, storeVars, imapVars>>

DATA(c) ==
  /\ \E message \in Messages : CustomSMTP_handle_DATA(c, message)
  /\ UNCHANGED <<sessionVars, server_authenticated, envelopeVars, dataFrame, imapVars>>

\* the same commands when the protocol engine calls the handler's hook itself
HookMAIL(c) ==
  /\ \E address \in Addresses : SMTPHandler_handle_MAIL(c, address)
  /\ UNCHANGED <<sessionVars, server_authenticated, delivered, storeVars, imapVars>>

HookRCPT(c) ==
  /\ \E address \in Addresses : SMTPHandler_handle_RCPT(c, address)
  /\ UNCHANGED <<sessionVars, server_authenticated, delivered, storeVars, imapVars>>

HookDATA(c) ==
  /\ \E message \in Messages : SMTPHandler_handle_DATA(c, message)
  /\ UNCHANGED <<sessionVars, server_authenticated, envelopeVars, dataFrame, imapVars>>

\* ================================================================ Init
Procs == {"w1", "w2"}     \* tasks calling the store concurrently
FolderNames == {"INBOX", "Sent"}

\* default_folders of create_mailbox, in the order they are inserted
DefaultFolders == <<"INBOX", "Sent", "Trash", "Drafts", "Spam">>

\* the folders create_mailbox gives a new account, the first of the store
ProvisionedFolders(email) ==
  { [id |-> i, user_email |-> email, name |-> DefaultFolders[i]] :
      i \in DOMAIN DefaultFolders }

NoCall == [op |-> "none"]

InitSessions ==
  /\ authenticated = [c \in Conns |-> FALSE]
  /\ username = [c \in Conns |-> Unset]
  /\ auth_login_stage = [c \in Conns |-> "unset"]
  /\ auth_username = [c \in Conns |-> Unset]
  /\ server_authenticated = [c \in Conns |-> FALSE]
  /\ mail_from = [c \in Conns |-> None]
  /\ rcpt_tos = [c \in Conns |-> <<>>]
  /\ last = [conn |-> "none", cmd |-> "none", mech |-> "", event |-> "",
             reply |-> "", arg |-> None]
  /\ delivered = [c \in Conns |-> {}]

InitStore ==
  /\ folders = ProvisionedFolders(Alice)
  /\ emails = {}
  /\ clock = 0
  /\ pc = [p \in Procs |-> "idle"]
  /\ call = [p \in Procs |-> NoCall]
  /\ folder_obj = [p \in Procs |-> None]
  /\ new_email = [p \in Procs |-> None]
  /\ result = [p \in Procs |-> None]
  /\ writeLock = "free"
  /\ log = <<>>
  /\ got = None

\* ---------------------------------------------------- retrieval sessions
RConns == {"r1", "r2"}    \* retrieval connections, one IMAPProtocol each

\* the text on a retrieval connection, as a sequence of tokens: the words of
\* a line, which blanks separate, and the characters CR and LF
Word(x) == [w |-> x]
CR == [w |-> "\\r"]
LF == [w |-> "\\n"]
WordText(word) == IF "w" \in DOMAIN word THEN word.w ELSE "(other)"

\* no response written yet
NoResponse == [n |-> 0, lines |-> <<>>]

\* IMAPProtocol.__init__
InitRetrieval ==
  /\ buffer = [r \in RConns |-> <<>>]
  /\ tasks = [r \in RConns |-> <<>>]
  /\ ndispatched = [r \in RConns |-> 0]
  /\ current_user = [r \in RConns |-> None]
  /\ selected_mailbox = [r \in RConns |-> None]
  /\ authenticated_users = [r \in RConns |-> {}]
  /\ sent = [r \in RConns |-> NoResponse]
  /\ closed = [r \in RConns |-> FALSE]

Init == InitSessions /\ InitStore /\ InitRetrieval

\* ====================================================== store clients
\* MailStorage.save_email as run by task p, one step per await. A session
\* sees the committed rows and its own; SQLite admits one writing
\* transaction at a time, so an INSERT waits while another session holds the
\* write lock, from its first INSERT to its commit or rollback.
Senders == {Eve}

InFlight == {p \in Procs : pc[p] \notin {"idle", "done"}}
LockFreeFor(p) == writeLock \in {"free", p}
HandedOver == got' = None    \* a get_emails result is with its caller by the next step

\* a task calls save_email(session, recipient, sender, email_data), the
\* folder left to its default as every caller does
CallFor(p, addresses) ==
  /\ pc[p] \in {"idle", "done"}
  /\ Len(log) + Cardinality(InFlight) < MaxEmails
  /\ \E recipient \in addresses, sender \in Senders,
        email_data \in DataSet, folder \in {"INBOX"} :
        call' = [call EXCEPT ![p] = [op |-> "save_email", recipient |-> recipient,
                    sender |-> sender, email_data |-> email_data, folder |-> folder]]
  /\ pc' = [pc EXCEPT ![p] = "select_folder"]
  /\ folder_obj' = [folder_obj EXCEPT ![p] = None]
  /\ new_email' = [new_email EXCEPT ![p] = None]
  /\ result' = [result EXCEPT ![p] = None]
  /\ HandedOver
  /\ UNCHANGED <<smtpVars, imapVars, dbVars, writeLock, log>>

Call(p) == CallFor(p, Recipients)
\* deliveries to a user and to an address no user has
CallStranger(p) == CallFor(p, {Alice, Carol})

\* await session.execute(select(Folder)...); when the folder exists the Email
\* object is built right away
SelectFolderStep(p) ==
  /\ pc[p] = "select_folder"
  /\ LET found == SelectFolder(folders, call[p].recipient, call[p].folder)
     IN /\ folder_obj' = [folder_obj EXCEPT ![p] = found]
        /\ IF found = None
           THEN /\ pc' = [pc EXCEPT ![p] = "flush_folder"]
                /\ UNCHANGED new_email
           ELSE /\ pc' = [pc EXCEPT ![p] = "flush_email"]
                /\ new_email' = [new_email EXCEPT ![p] =
                      NewEmail(call[p].recipient, call[p].sender,
                               call[p].email_data, found, clock)]
  /\ HandedOver
  /\ UNCHANGED <<smtpVars, imapVars, dbVars, call, result, writeLock, log>>

\* session.add(Folder(...)); await session.flush(): the INSERT fails on the
\* unique constraint _user_folder_uc when the pair has a row by now, and the
\* IntegrityError leaves save_email, the session rolling back
FlushFolder(p) ==
  /\ pc[p] = "flush_folder"
  /\ LockFreeFor(p)
  /\ IF SelectFolder(folders, call[p].recipient, call[p].folder) # None
     THEN /\ result' = [result EXCEPT ![p] = [raised |-> "IntegrityError"]]
          /\ pc' = [pc EXCEPT ![p] = "done"]
          /\ folder_obj' = [folder_obj EXCEPT ![p] = None]
          /\ call' = [call EXCEPT ![p] = NoCall]
          /\ writeLock' = "free"
          /\ UNCHANGED new_email
     ELSE LET row == [id |-> NextId(folders), user_email |-> call[p].recipient,
                      name |-> call[p].folder]
          IN /\ folder_obj' = [folder_obj EXCEPT ![p] = row]
             /\ new_email' = [new_email EXCEPT ![p] =
                   NewEmail(call[p].recipient, call[p].sender,
                            call[p].email_data, row, clock)]
             /\ writeLock' = p
             /\ pc' = [pc EXCEPT ![p] = "flush_email"]
             /\ UNCHANGED <<result, call>>
  /\ HandedOver
  /\ UNCHANGED <<smtpVars, imapVars, dbVars, log>>

\* session.add(new_email); await session.flush(): the INSERT gives the row its id
FlushEmail(p) ==
  /\ pc[p] = "flush_email"
  /\ LockFreeFor(p)
  /\ new_email' = [new_email EXCEPT ![p] = [@ EXCEPT !.id = NextId(emails)]]
  /\ writeLock' = p
  /\ pc' = [pc EXCEPT ![p] = "commit"]
  /\ HandedOver
  /\ UNCHANGED <<smtpVars, imapVars, dbVars, call, folder_obj, result, log>>

\* the UID taken from the folder's id instead of the message's
AssignUid_FromFolder(row) == [row EXCEPT !.uid = row.folder_id + UidOffset]

\* new_email.uid = new_email.id + 1000
AssignUid(row) == [row EXCEPT !.uid = row.id + UidOffset]

\* new_email.uid = ...; await session.commit(); return new_email.uid
Commit(p) ==
  /\ pc[p] = "commit"
  /\ LET row == AssignUid(new_email[p])
     IN /\ emails' = emails \cup {row}
        /\ folders' = folders \cup {folder_obj[p]}
        /\ result' = [result EXCEPT ![p] = [uid |-> row.uid]]
        /\ log' = Append(log, [recipient |-> call[p].recipient,
                                folder |-> call[p].folder,
                                data |-> call[p].email_data, uid |-> row.uid,
                                overlapped |-> InFlight # {p}])
  /\ writeLock' = "free"
  /\ pc' = [pc EXCEPT ![p] = "done"]
  /\ call' = [call EXCEPT ![p] = NoCall]
  /\ folder_obj' = [folder_obj EXCEPT ![p] = None]
  /\ new_email' = [new_email EXCEPT ![p] = None]
  /\ HandedOver
  /\ UNCHANGED <<smtpVars, imapVars, clock>>

\* a SELECT that also sees rows other sessions have flushed but not committed
SelectEmails_Dirty(email, folder) ==
  { e \in emails \cup {new_email[p] : p \in {q \in Procs : pc[q] = "commit"}} :
      /\ e.recipient = email
      /\ \E f \in folders : f.id = e.folder_id /\ f.name = folder }

\* the rows of every recipient in a folder of the name
SelectEmails_AnyRecipient(email, folder) ==
  { e \in emails : \E f \in folders : f.id = e.folder_id /\ f.name = folder }

\* the rows get_emails selects: Email joined to its Folder, by recipient and
\* folder name
SelectEmails(email, folder) ==
  { e \in emails : /\ e.recipient = email
                   /\ \E f \in folders : f.id = e.folder_id /\ f.name = folder }

\* the orders the rows can come in under ORDER BY received_at DESC
Ordered(rows) ==
  { s \in [1..Cardinality(rows) -> rows] :
      /\ \A i, j \in DOMAIN s : i # j => s[i] # s[j]
      /\ \A i, j \in DOMAIN s : i < j => s[i].received_at >= s[j].received_at }

\* the stored content returned as it is, not decrypted
Summary_Raw(e) ==
  [ id |-> e.id, uid |-> e.uid, sender |-> e.sender, subject |-> e.subject,
    content |-> e.content, flags |-> e.flags,
    received_at |-> e.received_at ]

\* one entry of the list get_emails returns
Summary(e) ==
  [ id |-> e.id, uid |-> e.uid, sender |-> e.sender, subject |-> e.subject,
    content |-> Decrypt(encode_utf8(e.content)), flags |-> e.flags,
    received_at |-> e.received_at ]

\* get_emails that raises when the user has no folder of the name
get_emails_MissingFolderFails(email, folder) ==
  IF ~\E f \in folders : f.user_email = email /\ f.name = folder
  THEN {<<Error>>}
  ELSE { LET list == [i \in DOMAIN rows |-> Summary(rows[i])]
         IN IF \E i \in DOMAIN list : list[i].content = Error
            THEN <<Error>> ELSE list :
         rows \in Ordered(SelectEmails(email, folder)) }

\* MailStorage.get_emails, one SELECT: the lists it can return; a decryption
\* that fails raises out of it
get_emails(email, folder) ==
  { LET list == [i \in DOMAIN rows |-> Summary(rows[i])]
    IN IF \E i \in DOMAIN list : list[i].content = Error THEN <<Error>> ELSE list :
    rows \in Ordered(SelectEmails(email, folder)) }

\* a task calling get_emails
GetEmails ==
  \E email \in Recipients, folder \in FolderNames :
    \E list \in get_emails(email, folder) :
      got' = [email |-> email, folder |-> folder, at |-> Len(log), result |-> list]
  /\ UNCHANGED <<smtpVars, imapVars, dbVars, pc, call, folder_obj, new_email, result,
                 writeLock, log>>

\* datetime.utcnow() moves on
Tick ==
  /\ clock < MaxClock
  /\ clock' = clock + 1
  /\ HandedOver
  /\ UNCHANGED <<smtpVars, imapVars, folders, emails, pc, call, folder_obj, new_email,
                 result, writeLock, log>>

\* the explicit removal of a message, a transaction of its own
DeleteEmail ==
  /\ writeLock = "free"
  /\ \E e \in emails : emails' = emails \ {e}
  /\ HandedOver
  /\ UNCHANGED <<smtpVars, imapVars, folders, clock, pc, call, folder_obj, new_email,
                 result, writeLock, log>>

NextStore ==
  \/ \E p \in Procs :
       \/ Call(p)
       \/ SelectFolderStep(p)
       \/ FlushFolder(p)
       \/ FlushEmail(p)
       \/ Commit(p)
  \/ GetEmails
  \/ Tick

SpecStore == Init /\ [][NextStore]_vars

SpecStoreLifetime == Init /\ [][NextStore \/ DeleteEmail]_vars

\* MailStorage.update_flags: one UPDATE by primary key and its commit; the
\* call returns None whether or not a row had the id
FlagSets == {{}, {"Seen"}, {"Flagged"}}
update_flags(rows, email_id, flags) ==
  {IF e.id = email_id THEN [e EXCEPT !.flags = flags] ELSE e : e \in rows}
UpdateFlags ==
  /\ writeLock = "free"
  /\ \E email_id \in 1..(MaxEmails + 1), flags \in FlagSets :
       /\ emails' = update_flags(emails, email_id, flags)
       /\ got' = [op |-> "update_flags", email_id |-> email_id, flags |-> flags,
                  result |-> None]
  /\ UNCHANGED <<smtpVars, imapVars, folders, clock, pc, call, folder_obj, new_email,
                 result, writeLock, log>>

NextFlags == NextStore \/ UpdateFlags

SpecFlags == Init /\ [][NextFlags]_vars

NextStrangers ==
  \/ \E p \in Procs :
       \/ CallStranger(p)
       \/ SelectFolderStep(p)
       \/ FlushFolder(p)
       \/ FlushEmail(p)
       \/ Commit(p)
  \/ GetEmails
  \/ Tick

SpecStrangers == Init /\ [][NextStrangers]_vars

NextSubmission ==
  \E c \in Conns :
    \/ AUTH(c)
    \/ MAIL(c)
    \/ RCPT(c)
    \/ DATA(c)
    \/ HookMAIL(c)
    \/ HookRCPT(c)
    \/ HookDATA(c)

SpecSubmission == Init /\ [][NextSubmission]_vars

\* ------------------------------------------------ message processing alone
\* handle_message applied to the message of a transaction whose envelope
\* holds a sender and recipients of the serving domain
AcceptedLists == {<<Alice>>, <<Bob>>, <<Alice, Bob>>}

InitDelivery ==
  /\ authenticated = [c \in Conns |-> TRUE]
  /\ username = [c \in Conns |-> Str(<<Alice>>)]
  /\ auth_login_stage = [c \in Conns |-> "unset"]
  /\ auth_username = [c \in Conns |-> Unset]
  /\ server_authenticated = [c \in Conns |-> FALSE]
  /\ mail_from \in [Conns -> Addresses]
  /\ rcpt_tos \in [Conns -> AcceptedLists]
  /\ last = [conn |-> "none", cmd |-> "none", mech |-> "", event |-> "",
             reply |-> "", arg |-> None]
  /\ delivered = [c \in Conns |-> {}]
  /\ InitStore
  /\ InitRetrieval

\* the DATA of the transaction, past the gates
Transaction(c) ==
  /\ delivered[c] = {}
  /\ \E message \in Messages : AsyncMessage_handle_DATA(c, message)
  /\ UNCHANGED <<sessionVars, server_authenticated, envelopeVars, dataFrame, imapVars>>

NextDelivery == \E c \in Conns : Transaction(c)

SpecDelivery == InitDelivery /\ [][NextDelivery]_vars

\* ================================================== retrieval sessions
MaxLines == 3      \* lines a retrieval connection receives
MaxChunk == 4      \* tokens in one read, when reads cut the text anywhere
MaxStream == 6     \* tokens all connections receive, when reads cut anywhere

\* "\r\n" in s, and where the first one starts
HasCRLF(s) == \E i \in 1..(Len(s) - 1) : s[i] = CR /\ s[i + 1] = LF
FirstCRLF(s) ==
  CHOOSE i \in 1..(Len(s) - 1) :
    /\ s[i] = CR /\ s[i + 1] = LF
    /\ \A j \in 1..(i - 1) : ~(s[j] = CR /\ s[j + 1] = LF)

\* how many "\r\n" a text holds
RECURSIVE CountCRLF(_)
CountCRLF(s) ==
  IF ~HasCRLF(s) THEN 0
  ELSE 1 + CountCRLF(SubSeq(s, FirstCRLF(s) + 2, Len(s)))

\* the task asyncio.create_task(self.handle_command(command)) creates
NewTask(n, command) ==
  [n |-> n, command |-> command, pc |-> "new", user |-> None, mailbox |-> None]

\* IMAPProtocol.data_received
data_received(r, data) ==
  LET all == buffer[r] \o data
  IN IF HasCRLF(all)
     THEN LET i == FirstCRLF(all)
              command == SubSeq(all, 1, i - 1)
          IN /\ buffer' = [buffer EXCEPT ![r] = SubSeq(all, i + 2, Len(all))]
             /\ tasks' = [tasks EXCEPT ![r] =
                            Append(@, NewTask(ndispatched[r] + 1, command))]
             /\ ndispatched' = [ndispatched EXCEPT ![r] = @ + 1]
     ELSE /\ buffer' = [buffer EXCEPT ![r] = all]
          /\ UNCHANGED <<tasks, ndispatched>>

sessionState == <<current_user, selected_mailbox, authenticated_users, sent, closed>>

\* reads that cut the text anywhere: any tokens, a few at a time
Tokens == {Word("a"), CR, LF}
RECURSIVE Texts(_)
Texts(n) ==
  IF n = 0 THEN {<<>>}
  ELSE LET shorter == Texts(n - 1)
       IN shorter \cup {Append(t, x) : t \in {u \in shorter : Len(u) = n - 1},
                                        x \in Tokens}

\* the tokens a connection has received: those of the lines split off, their
\* line ends, and the buffer
RECURSIVE LengthOfLines(_)
LengthOfLines(ts) ==
  IF ts = <<>> THEN 0 ELSE Len(Head(ts).command) + 2 + LengthOfLines(Tail(ts))
Received(r) == LengthOfLines(tasks[r]) + Len(buffer[r])
RECURSIVE Total(_, _)
Total(f, S) ==
  IF S = {} THEN 0 ELSE LET x == CHOOSE y \in S : TRUE IN f[x] + Total(f, S \ {x})

ReceiveBytes(r) ==
  /\ ~closed[r]
  /\ \E data \in Texts(MaxChunk) \ {<<>>} :
       /\ Total([q \in RConns |-> Received(q)], RConns) + Len(data) <= MaxStream
       /\ data_received(r, data)
  /\ UNCHANGED <<smtpVars, storeVars, sessionState>>

NextFraming == \E r \in RConns : ReceiveBytes(r)

SpecFraming == Init /\ [][NextFraming]_vars

\* ---------------------------------------------- commands of a retrieval session
\* str.split(): the words of a line
Split(command) == SelectSeq(command, LAMBDA t : t # CR /\ t # LF)

\* IMAPResponse.encode: every data line behind "* ", then the status line
StatusLine(tag, kind, text) ==
  [star |-> FALSE, tag |-> tag, kind |-> kind, text |-> text]
DataLine(name, val) == [star |-> TRUE, name |-> name, val |-> val]
\* an encoding that puts the status line first
encode_StatusFirst(status, data) == <<status>> \o data
encode(status, data) == data \o <<status>>

\* IMAPProtocol.send_response of task n; a closed transport drops what is
\* written to it
send_response(r, n, status, data) ==
  sent' = [sent EXCEPT ![r] = IF closed[r] THEN @
                               ELSE [n |-> n, lines |-> encode(status, data)]]

Remove(s, i) == SubSeq(s, 1, i - 1) \o SubSeq(s, i + 1, Len(s))
\* the task is over
Finish(r, i) == tasks' = [tasks EXCEPT ![r] = Remove(@, i)]
\* the task waits for the database, holding the values it has read
Suspend(r, i, user, mailbox) ==
  tasks' = [tasks EXCEPT ![r][i] =
              [@ EXCEPT !.pc = "waiting", !.user = user, !.mailbox = mailbox]]

\* the parts of a command line
TagOf(command) == Split(command)[1]
VerbOf(command) ==
  IF Len(Split(command)) < 2 THEN "" ELSE Upper(WordText(Split(command)[2]))
ArgsOf(command) == SubSeq(Split(command), 3, Len(Split(command)))

\* the except of handle_command
ErrorProcessing(r, i) ==
  /\ send_response(r, tasks[r][i].n,
       StatusLine(TagOf(tasks[r][i].command), "NO", "Error processing command"), <<>>)
  /\ Finish(r, i)
  /\ UNCHANGED <<current_user, selected_mailbox, authenticated_users, closed>>

\* handle_login that tells an unknown address from a wrong password
handle_login_NamesUnknownUser(r, i, dbok) ==
  LET t == tasks[r][i]
      tag == TagOf(t.command)
      name == ArgsOf(t.command)[1]
      password == Str(<<ArgsOf(t.command)[2]>>)
  IN /\ IF ~dbok
        THEN /\ send_response(r, t.n, StatusLine(tag, "NO", ""),
                              <<DataLine("Server error", None)>>)
             /\ UNCHANGED <<current_user, authenticated_users>>
        ELSE IF \E u \in UserTable :
                  u.email = name /\ checkpw(password, u.password_hash)
        THEN /\ authenticated_users' = [authenticated_users EXCEPT ![r] = @ \cup {name}]
             /\ current_user' = [current_user EXCEPT ![r] = name]
             /\ send_response(r, t.n, StatusLine(tag, "OK", ""),
                              <<DataLine("Logged in successfully", None)>>)
        ELSE /\ send_response(r, t.n, StatusLine(tag, "NO", ""),
                  <<DataLine(IF \E u \in UserTable : u.email = name
                             THEN "Invalid credentials" ELSE "Unknown user", None)>>)
             /\ UNCHANGED <<current_user, authenticated_users>>
     /\ Finish(r, i)
     /\ UNCHANGED <<selected_mailbox, closed>>

\* handle_login that logs the session out when the credentials fail
handle_login_ClearsOnFailure(r, i, dbok) ==
  LET t == tasks[r][i]
      tag == TagOf(t.command)
      name == ArgsOf(t.command)[1]
      password == Str(<<ArgsOf(t.command)[2]>>)
  IN /\ IF ~dbok
        THEN /\ send_response(r, t.n, StatusLine(tag, "NO", ""),
                              <<DataLine("Server error", None)>>)
             /\ UNCHANGED <<current_user, authenticated_users>>
        ELSE IF \E u \in UserTable :
                  u.email = name /\ checkpw(password, u.password_hash)
        THEN /\ authenticated_users' = [authenticated_users EXCEPT ![r] = @ \cup {name}]
             /\ current_user' = [current_user EXCEPT ![r] = name]
             /\ send_response(r, t.n, StatusLine(tag, "OK", ""),
                              <<DataLine("Logged in successfully", None)>>)
        ELSE /\ send_response(r, t.n, StatusLine(tag, "NO", ""),
                              <<DataLine("Invalid credentials", None)>>)
             /\ current_user' = [current_user EXCEPT ![r] = None]
             /\ UNCHANGED authenticated_users
     /\ Finish(r, i)
     /\ UNCHANGED <<selected_mailbox, closed>>

\* IMAPProtocol.handle_login, after its query
handle_login(r, i, dbok) ==
  LET t == tasks[r][i]
      tag == TagOf(t.command)
      name == ArgsOf(t.command)[1]
      password == Str(<<ArgsOf(t.command)[2]>>)
  IN /\ IF ~dbok
        THEN /\ send_response(r, t.n, StatusLine(tag, "NO", ""),
                              <<DataLine("Server error", None)>>)
             /\ UNCHANGED <<current_user, authenticated_users>>
        ELSE IF \E u \in UserTable :
                  u.email = name /\ checkpw(password, u.password_hash)
        THEN /\ authenticated_users' = [authenticated_users EXCEPT ![r] = @ \cup {name}]
             /\ current_user' = [current_user EXCEPT ![r] = name]
             /\ send_response(r, t.n, StatusLine(tag, "OK", ""),
                              <<DataLine("Logged in successfully", None)>>)
        ELSE /\ send_response(r, t.n, StatusLine(tag, "NO", ""),
                              <<DataLine("Invalid credentials", None)>>)
             /\ UNCHANGED <<current_user, authenticated_users>>
     /\ Finish(r, i)
     /\ UNCHANGED <<selected_mailbox, closed>>

\* IMAPProtocol.handle_list
ListedFolders == <<"INBOX", "Sent", "Trash", "Drafts", "Spam">>
handle_list(r, i) ==
  LET t == tasks[r][i]
      tag == TagOf(t.command)
  IN /\ IF current_user[r] = None
        THEN send_response(r, t.n, StatusLine(tag, "NO", "Not authenticated"), <<>>)
        ELSE send_response(r, t.n, StatusLine(tag, "OK", ""),
               [k \in DOMAIN ListedFolders |->
                  DataLine("LIST", [folder |-> ListedFolders[k]])])
     /\ Finish(r, i)
     /\ UNCHANGED <<current_user, selected_mailbox, authenticated_users, closed>>

\* max([e['uid'] for e in emails], default=1000) + 1
UidFloor == 1000
uidnext(list) == Max({list[k].uid : k \in DOMAIN list} \cup {UidFloor}) + 1

\* handle_select without its gate
handle_select_start_NoGate(r, i) ==
  LET t == tasks[r][i]
  IN /\ Suspend(r, i, current_user[r], ArgsOf(t.command)[1])
     /\ UNCHANGED sessionState

\* IMAPProtocol.handle_select: up to its query, and after it
handle_select_start(r, i) ==
  LET t == tasks[r][i]
      tag == TagOf(t.command)
  IN IF current_user[r] = None
     THEN /\ send_response(r, t.n, StatusLine(tag, "NO", "Not authenticated"), <<>>)
          /\ Finish(r, i)
          /\ UNCHANGED <<current_user, selected_mailbox, authenticated_users, closed>>
     ELSE /\ Suspend(r, i, current_user[r], ArgsOf(t.command)[1])
          /\ UNCHANGED sessionState

\* handle_select with one selection shared by all connections
handle_select_SharedSelection(r, i, list) ==
  LET t == tasks[r][i]
      tag == TagOf(t.command)
  IN /\ IF list = <<Error>>
        THEN /\ send_response(r, t.n, StatusLine(tag, "NO", "Server error"), <<>>)
             /\ UNCHANGED selected_mailbox
        ELSE /\ selected_mailbox' = [q \in RConns |-> t.mailbox]
             /\ send_response(r, t.n, StatusLine(tag, "OK", ""),
                  << DataLine("EXISTS", [n |-> Len(list)]),
                     DataLine("RECENT", [n |-> 0]),
                     DataLine("UIDVALIDITY", [n |-> 1]),
                     DataLine("UIDNEXT", [n |-> uidnext(list)]),
                     DataLine("FLAGS", None),
                     DataLine("PERMANENTFLAGS", None) >>)
     /\ Finish(r, i)
     /\ UNCHANGED <<current_user, authenticated_users, closed>>

\* IMAPProtocol.handle_select, after its query
handle_select(r, i, list) ==
  LET t == tasks[r][i]
      tag == TagOf(t.command)
  IN /\ IF list = <<Error>>
        THEN /\ send_response(r, t.n, StatusLine(tag, "NO", "Server error"), <<>>)
             /\ UNCHANGED selected_mailbox
        ELSE /\ selected_mailbox' = [selected_mailbox EXCEPT ![r] = t.mailbox]
             /\ send_response(r, t.n, StatusLine(tag, "OK", ""),
                  << DataLine("EXISTS", [n |-> Len(list)]),
                     DataLine("RECENT", [n |-> 0]),
                     DataLine("UIDVALIDITY", [n |-> 1]),
                     DataLine("UIDNEXT", [n |-> uidnext(list)]),
                     DataLine("FLAGS", None),
                     DataLine("PERMANENTFLAGS", None) >>)
     /\ Finish(r, i)
     /\ UNCHANGED <<current_user, authenticated_users, closed>>

\* handle_fetch whose gate asks for a logged-in user only
handle_fetch_start_NoSelection(r, i) ==
  LET t == tasks[r][i]
      tag == TagOf(t.command)
  IN IF current_user[r] = None
     THEN /\ send_response(r, t.n,
               StatusLine(tag, "NO", "Not authenticated or no mailbox selected"), <<>>)
          /\ Finish(r, i)
          /\ UNCHANGED <<current_user, selected_mailbox, authenticated_users, closed>>
     ELSE /\ Suspend(r, i, current_user[r], selected_mailbox[r])
          /\ UNCHANGED sessionState

\* IMAPProtocol.handle_fetch: up to its query, and after it
handle_fetch_start(r, i) ==
  LET t == tasks[r][i]
      tag == TagOf(t.command)
  IN IF current_user[r] = None \/ selected_mailbox[r] = None
     THEN /\ send_response(r, t.n,
               StatusLine(tag, "NO", "Not authenticated or no mailbox selected"), <<>>)
          /\ Finish(r, i)
          /\ UNCHANGED <<current_user, selected_mailbox, authenticated_users, closed>>
     ELSE /\ Suspend(r, i, current_user[r], selected_mailbox[r])
          /\ UNCHANGED sessionState

\* one entry of the FETCH response; the content get_emails returns is
\* already decrypted bytes, and handle_fetch encodes and decrypts it again
FetchEntry(email) ==
  LET decrypted_content == Decrypt(encode_utf8(email.content))
  IN IF decrypted_content = Error THEN Error
     ELSE DataLine("FETCH", [uid |-> email.uid, flags |-> email.flags,
                             body |-> decrypted_content])

handle_fetch(r, i, list) ==
  LET t == tasks[r][i]
      tag == TagOf(t.command)
      response == [k \in DOMAIN list |-> FetchEntry(list[k])]
  IN /\ IF list = <<Error>> \/ \E k \in DOMAIN response : response[k] = Error
        THEN send_response(r, t.n, StatusLine(tag, "NO", "Server error"), <<>>)
        ELSE send_response(r, t.n, StatusLine(tag, "OK", ""), response)
     /\ Finish(r, i)
     /\ UNCHANGED <<current_user, selected_mailbox, authenticated_users, closed>>

\* IMAPProtocol.handle_logout
handle_logout(r, i) ==
  LET t == tasks[r][i]
  IN /\ authenticated_users' = [authenticated_users EXCEPT ![r] = @ \ {current_user[r]}]
     /\ current_user' = [current_user EXCEPT ![r] = None]
     /\ selected_mailbox' = [selected_mailbox EXCEPT ![r] = None]
     /\ send_response(r, t.n, StatusLine(TagOf(t.command), "OK", ""),
                      <<DataLine("BYE IMAP4rev1 Server logging out", None)>>)
     /\ closed' = [closed EXCEPT ![r] = TRUE]
     /\ Finish(r, i)

\* handle_command that takes an unknown verb for a LOGOUT
handle_command_UnknownLogsOut(r, i) ==
  LET command == tasks[r][i].command
      parts == Split(command)
      cmd == VerbOf(command)
      args == ArgsOf(command)
  IN IF Len(parts) < 2
     \* nothing to do, or no verb to unpack: the except finds no tag to
     \* answer with and the task ends with that error
     THEN Finish(r, i) /\ UNCHANGED sessionState
     ELSE CASE cmd = "LOGIN" ->
                 IF Len(args) = 2
                 THEN Suspend(r, i, None, None) /\ UNCHANGED sessionState
                 ELSE ErrorProcessing(r, i)
            [] cmd = "LIST" ->
                 IF Len(args) = 2 THEN handle_list(r, i) ELSE ErrorProcessing(r, i)
            [] cmd = "SELECT" ->
                 IF Len(args) = 1 THEN handle_select_start(r, i)
                 ELSE ErrorProcessing(r, i)
            [] cmd = "FETCH" ->
                 IF Len(args) >= 1 THEN handle_fetch_start(r, i)
                 ELSE ErrorProcessing(r, i)
            [] cmd = "LOGOUT" -> handle_logout(r, i)
            [] OTHER -> handle_logout(r, i)

\* IMAPProtocol.handle_command, from the start of the task to its first wait
\* for the database or to its end
handle_command(r, i) ==
  LET command == tasks[r][i].command
      parts == Split(command)
      cmd == VerbOf(command)
      args == ArgsOf(command)
  IN IF Len(parts) < 2
     \* nothing to do, or no verb to unpack: the except finds no tag to
     \* answer with and the task ends with that error
     THEN Finish(r, i) /\ UNCHANGED sessionState
     ELSE CASE cmd = "LOGIN" ->
                 IF Len(args) = 2
                 THEN Suspend(r, i, None, None) /\ UNCHANGED sessionState
                 ELSE ErrorProcessing(r, i)
            [] cmd = "LIST" ->
                 IF Len(args) = 2 THEN handle_list(r, i) ELSE ErrorProcessing(r, i)
            [] cmd = "SELECT" ->
                 IF Len(args) = 1 THEN handle_select_start(r, i)
                 ELSE ErrorProcessing(r, i)
            [] cmd = "FETCH" ->
                 IF Len(args) >= 1 THEN handle_fetch_start(r, i)
                 ELSE ErrorProcessing(r, i)
            [] cmd = "LOGOUT" -> handle_logout(r, i)
            [] OTHER ->
                 /\ send_response(r, tasks[r][i].n,
                      StatusLine(TagOf(command), "BAD", "Unknown command"), <<>>)
                 /\ Finish(r, i)
                 /\ UNCHANGED <<current_user, selected_mailbox,
                                authenticated_users, closed>>

\* tasks start in the order they were created
StartTask(r) ==
  /\ \E i \in DOMAIN tasks[r] :
       /\ tasks[r][i].pc = "new"
       /\ \A j \in 1..(i - 1) : tasks[r][j].pc # "new"
       /\ handle_command(r, i)
  /\ UNCHANGED <<smtpVars, storeVars, buffer, ndispatched>>

\* a waiting task goes on when its query returns
ResumeTask(r) ==
  /\ \E i \in DOMAIN tasks[r] :
       /\ tasks[r][i].pc = "waiting"
       /\ LET t == tasks[r][i]
              cmd == VerbOf(t.command)
          IN CASE cmd = "LOGIN" -> \E dbok \in BOOLEAN : handle_login(r, i, dbok)
               [] cmd = "SELECT" ->
                    \E list \in get_emails(t.user, WordText(t.mailbox)) :
                      handle_select(r, i, list)
               [] OTHER ->
                    \E list \in get_emails(t.user, WordText(t.mailbox)) :
                      handle_fetch(r, i, list)
  /\ UNCHANGED <<smtpVars, storeVars, buffer, ndispatched>>

\* ------------------------------------------------------ the text received
\* the tag of the k-th line of a connection
Tag(k) == [w |-> "tag", k |-> k]
\* the lines clients send, after the tag
CommandMenu ==
  { <<Word("LOGIN"), Alice, Text("pwA")>>,
    <<Word("login"), Alice, Text("pwB")>>,
    <<Word("LIST"), Word("ref"), Word("*")>>,
    <<Word("SELECT"), Word("INBOX")>>,
    <<Word("SELECT")>>,
    <<Word("FETCH"), Word("1:*")>>,
    <<Word("NOOP")>>,
    <<Word("LOGOUT")>> }
\* the lines of clients that log in under several names
LoginMenu ==
  { <<Word("LOGIN"), Alice, Text("pwA")>>,
    <<Word("login"), Alice, Text("pwB")>>,
    <<Word("LOGIN"), Eve, Text("pwA")>>,
    <<Word("LOGIN"), Bob, Text("pwB")>>,
    <<Word("SELECT"), Word("Archive")>>,
    <<Word("LOGOUT")>> }
Line(k, rest) == <<Tag(k)>> \o rest \o <<CR, LF>>
\* the k-th line of a connection: a command, a tag alone, or nothing
LineMenu(menu, k) == {Line(k, rest) : rest \in menu \cup {<<>>}} \cup {<<CR, LF>>}
\* the line that comes in the same read behind another
SecondLineMenu(k) == {Line(k, <<Word("NOOP")>>), <<CR, LF>>}

\* the lines a connection has received
LinesOf(r) == ndispatched[r] + CountCRLF(buffer[r])

\* a read that brings one whole line, or two at once. The event loop runs
\* the task a read has created before it reads again.
ReceiveFrom(r, menu) ==
  /\ ~closed[r]
  /\ \A q \in RConns : \A i \in DOMAIN tasks[q] : tasks[q][i].pc # "new"
  /\ \E first \in LineMenu(menu, LinesOf(r) + 1) :
       \/ /\ Total([q \in RConns |-> LinesOf(q)], RConns) + 1 <= MaxLines
          /\ data_received(r, first)
       \/ /\ Total([q \in RConns |-> LinesOf(q)], RConns) + 2 <= MaxLines
          /\ \E second \in SecondLineMenu(LinesOf(r) + 2) :
               data_received(r, first \o second)
  /\ UNCHANGED <<smtpVars, storeVars, sessionState>>

Receive(r) == ReceiveFrom(r, CommandMenu)
ReceiveLogin(r) == ReceiveFrom(r, LoginMenu)
\* the lines of clients that only try credentials
CredentialMenu ==
  { <<Word("LOGIN"), Alice, Text("pwA")>>,
    <<Word("LOGIN"), Alice, Text("pwB")>>,
    <<Word("LOGIN"), Eve, Text("pwA")>> }
ReceiveCredentials(r) == ReceiveFrom(r, CredentialMenu)

\* a message stored for alice by an earlier run of the server, under the
\* key that run had generated
EarlierKey == "k0"
EarlierEmail ==
  [ Message([ recipient |-> Alice, sender |-> Eve, subject |-> Subject(Bytes("m0")),
              content |-> decode_utf8(Bytes([key |-> EarlierKey,
                                             plain |-> Bytes("m0")])),
              folder |-> SelectFolder(ProvisionedFolders(Alice), Alice, "INBOX"),
              received_at |-> 0 ])
    EXCEPT !.id = 1, !.uid = 1 + UidOffset ]

\* a message delivered to alice's INBOX while sessions are open
Deliver ==
  /\ Cardinality(emails) < MaxEmails
  /\ LET saved == SaveEmailSeq([folders |-> folders, emails |-> emails],
                               Alice, Eve, Bytes("m1"), "INBOX", clock)
     IN /\ folders' = saved.folders
        /\ emails' = saved.emails
        /\ log' = Append(log, [recipient |-> Alice, folder |-> "INBOX",
                               data |-> Bytes("m1"), uid |-> saved.uid,
                               overlapped |-> FALSE])
  /\ UNCHANGED <<smtpVars, imapVars, clock, pc, call, folder_obj, new_email,
                 result, writeLock, got>>

InitRetrievalStore ==
  /\ InitSessions
  /\ InitRetrieval
  /\ folders = ProvisionedFolders(Alice)
  /\ emails \in {{}, {EarlierEmail}}
  /\ clock = 0
  /\ pc = [p \in Procs |-> "idle"]
  /\ call = [p \in Procs |-> NoCall]
  /\ folder_obj = [p \in Procs |-> None]
  /\ new_email = [p \in Procs |-> None]
  /\ result = [p \in Procs |-> None]
  /\ writeLock = "free"
  /\ log = <<>>
  /\ got = None

\* one connection is open; what two connections do to each other is left to
\* a specification of its own
OpenConns == {"r1"}

NextRetrieval ==
  \/ \E r \in OpenConns :
       \/ Receive(r)
       \/ StartTask(r)
       \/ ResumeTask(r)
  \/ Deliver

SpecRetrieval == InitRetrievalStore /\ [][NextRetrieval]_vars

NextLogins ==
  \/ \E r \in OpenConns :
       \/ ReceiveLogin(r)
       \/ StartTask(r)
       \/ ResumeTask(r)
  \/ Deliver

SpecLogins == InitRetrievalStore /\ [][NextLogins]_vars

\* the AUTH commands of clients that only try credentials
CredentialArgs ==
  { [parts |-> <<"PLAIN", B64(<<Text(""), Alice, Text("pwA")>>)>>],
    [parts |-> <<"PLAIN", B64(<<Text(""), Alice, Text("pwB")>>)>>],
    [parts |-> <<"PLAIN", B64(<<Text(""), Eve, Text("pwA")>>)>>],
    [parts |-> <<"LOGIN">>],
    [parts |-> <<"LOGIN", B64(<<Alice>>)>>],
    [parts |-> <<"LOGIN", B64(<<Eve>>)>>],
    [parts |-> <<"LOGIN", B64(<<Text("pwA")>>)>>],
    [parts |-> <<"LOGIN", B64(<<Text("pwB")>>)>>] }
AUTHCredentials(c) == (\A r \in RConns : closed[r]) /\ AUTHFrom(c, CredentialArgs)

\* a client trying credentials, over a submission connection when no
\* retrieval connection is open, over the retrieval connection otherwise
InitVerifier ==
  /\ InitSessions
  /\ InitStore
  /\ buffer = [r \in RConns |-> <<>>]
  /\ tasks = [r \in RConns |-> <<>>]
  /\ ndispatched = [r \in RConns |-> 0]
  /\ current_user = [r \in RConns |-> None]
  /\ selected_mailbox = [r \in RConns |-> None]
  /\ authenticated_users = [r \in RConns |-> {}]
  /\ sent = [r \in RConns |-> NoResponse]
  /\ closed \in {[r \in RConns |-> FALSE], [r \in RConns |-> TRUE]}

NextVerifier ==
  \/ \E c \in Conns : AUTHCredentials(c)
  \/ \E r \in OpenConns :
       \/ ReceiveCredentials(r)
       \/ StartTask(r)
       \/ ResumeTask(r)

SpecVerifier == InitVerifier /\ [][NextVerifier]_vars

\* an AUTH argument of blanks only: ''.split(' ', 1) is ['']
BlankArg == [parts |-> <<"">>]
\* clients that only send AUTH commands, with any argument
AUTHAny(c) == AUTHFrom(c, AuthArgs \cup {BlankArg})

\* one session sends them; what two sessions do to each other is left to a
\* specification of its own
AuthConns == {"c1"}

NextAuth == \E c \in AuthConns : AUTHAny(c)

SpecAuth == Init /\ [][NextAuth]_vars

\* the lines of two clients that log in and select under their own names
PairMenu ==
  { <<Word("LOGIN"), Alice, Text("pwA")>>,
    <<Word("LOGIN"), Bob, Text("pwB")>>,
    <<Word("SELECT"), Word("INBOX")>>,
    <<Word("SELECT"), Word("Sent")>> }
\* a read that brings one line of a menu, while fewer than max were received
ReceiveLineUpTo(r, menu, max) ==
  /\ ~closed[r]
  /\ \A q \in RConns : \A i \in DOMAIN tasks[q] : tasks[q][i].pc # "new"
  /\ Total([q \in RConns |-> LinesOf(q)], RConns) + 1 <= max
  /\ \E rest \in menu : data_received(r, Line(LinesOf(r) + 1, rest))
  /\ UNCHANGED <<smtpVars, storeVars, sessionState>>
ReceiveLineFrom(r, menu) == ReceiveLineUpTo(r, menu, MaxLines)
ReceivePair(r) == ReceiveLineFrom(r, PairMenu)

\* two connections of one protocol at a time, in any interleaving
NextPair ==
  \/ \E c \in Conns : AUTHCredentials(c)
  \/ \E r \in RConns :
       \/ ReceivePair(r)
       \/ StartTask(r)
       \/ ResumeTask(r)

SpecPair == InitVerifier /\ [][NextPair]_vars

\* a client that logs in and selects its INBOX while messages are delivered
\* to it and removed from it
MailboxMenu ==
  { <<Word("LOGIN"), Alice, Text("pwA")>>,
    <<Word("SELECT"), Word("INBOX")>> }
ReceiveSelect(r) == ReceiveLineFrom(r, MailboxMenu)
\* MaxEmails deliveries in the life of the store
DeliverInLifetime == Len(log) < MaxEmails /\ Deliver

NextMailbox ==
  \/ \E r \in OpenConns :
       \/ ReceiveSelect(r)
       \/ StartTask(r)
       \/ ResumeTask(r)
  \/ DeliverInLifetime
  \/ DeleteEmail

SpecMailbox == InitRetrievalStore /\ [][NextMailbox]_vars

\* a store that holds two messages for alice and one for bob, delivered in
\* this run of the server
TwoMailboxes ==
  LET a1 == SaveEmailSeq([folders |-> ProvisionedFolders(Alice), emails |-> {}],
                         Alice, Eve, Bytes("m1"), "INBOX", 0)
      a2 == SaveEmailSeq(a1, Alice, Eve, Bytes("m2"), "INBOX", 0)
      b1 == SaveEmailSeq(a2, Bob, Eve, Bytes("m1"), "INBOX", 0)
  IN [folders |-> b1.folders, emails |-> b1.emails]

\* a client that changes its identity while a folder is selected
MaxCommands == 4     \* lines such a client sends
IdentityMenu ==
  { <<Word("LOGIN"), Alice, Text("pwA")>>,
    <<Word("LOGIN"), Bob, Text("pwB")>>,
    <<Word("LOGIN"), Bob, Text("pwA")>>,
    <<Word("SELECT"), Word("INBOX")>>,
    <<Word("FETCH"), Word("1:*")>> }
ReceiveIdentity(r) == ReceiveLineUpTo(r, IdentityMenu, MaxCommands)

InitIdentity ==
  /\ InitSessions
  /\ InitRetrieval
  /\ folders = TwoMailboxes.folders
  /\ emails = TwoMailboxes.emails
  /\ clock = 0
  /\ pc = [p \in Procs |-> "idle"]
  /\ call = [p \in Procs |-> NoCall]
  /\ folder_obj = [p \in Procs |-> None]
  /\ new_email = [p \in Procs |-> None]
  /\ result = [p \in Procs |-> None]
  /\ writeLock = "free"
  /\ log = <<>>
  /\ got = None

NextIdentity ==
  \E r \in OpenConns :
    \/ ReceiveIdentity(r)
    \/ StartTask(r)
    \/ ResumeTask(r)

SpecIdentity == InitIdentity /\ [][NextIdentity]_vars

\* ============================================================== claims
MailCommands == {"MAIL", "RCPT", "DATA"}
ValidUser(name) == \E u \in UserTable : Str(<<u.email>>) = name

\* C1: while the session is not authenticated, a MAIL FROM, RCPT TO or DATA
\* is answered 530 Authentication required and leaves the envelope's sender
\* and recipient list as they were, whatever was issued before.
C1_UnauthenticatedRejected ==
  [][\A c \in Conns :
       (~authenticated[c] /\ last'.conn = c /\ last'.cmd \in MailCommands)
         => /\ last'.reply = R530
            /\ mail_from'[c] = mail_from[c]
            /\ rcpt_tos'[c] = rcpt_tos[c]]_vars

\* an unauthenticated session, halfway through AUTH LOGIN, had DATA refused
C1_Witness ==
  \E c \in Conns :
    /\ ~authenticated[c]
    /\ auth_login_stage[c] = "password"
    /\ last.conn = c /\ last.cmd = "DATA"
    /\ last.event = "unauthenticated" /\ last.reply = R530

\* C2: save_email is never called for a session in which no AUTH exchange
\* has succeeded: such a session has stored nothing.
C2_NoStoreWithoutAuth ==
  \A c \in Conns : delivered[c] # {} => authenticated[c]

\* a session whose AUTH was rejected sent DATA, and nothing was stored
C2_Witness ==
  \E c \in Conns :
    /\ ~authenticated[c]
    /\ auth_login_stage[c] = "None"
    /\ last.conn = c /\ last.cmd = "DATA"
    /\ delivered[c] = {} /\ emails = {}

\* C3: a verified AUTH exchange leaves the session authenticated with the
\* identity recorded, and MAIL FROM, RCPT TO and DATA of an authenticated
\* session are not answered 530 Authentication required.
C3_AuthenticatedAccepted ==
  [][\A c \in Conns :
       /\ (last'.conn = c /\ last'.cmd = "AUTH" /\ last'.event = "verified")
            => (authenticated'[c] /\ username'[c] # Unset)
       /\ (authenticated[c] /\ last'.conn = c /\ last'.cmd \in MailCommands)
            => last'.reply # R530]_vars

\* C9: AUTH LOGIN with a valid username and then a wrong password is
\* answered 535 and leaves the session not authenticated, with no LOGIN
\* sub-stage pending.
C9_LoginRejectedResets ==
  [][\A c \in Conns :
       ( /\ auth_login_stage[c] = "password"
         /\ ValidUser(auth_username[c])
         /\ last'.conn = c /\ last'.cmd = "AUTH"
         /\ last'.mech = "LOGIN" /\ last'.event = "rejected" )
         => /\ last'.reply = R535
            /\ ~authenticated'[c]
            /\ auth_login_stage'[c] \notin {"username", "password"}]_vars

\* C10: an AUTH PLAIN with a response that fails (undecodable, wrong field
\* count, or refused by the verifier) is answered 535 and leaves the session
\* not authenticated, whatever its state was before.
C10_PlainFailureResets ==
  [][\A c \in Conns :
       ( /\ last'.conn = c /\ last'.cmd = "AUTH" /\ last'.mech = "PLAIN"
         /\ last'.event \in {"undecodable", "rejected", "lookup_error"} )
         => /\ last'.reply = R535
            /\ ~authenticated'[c]]_vars

\* C11: an RCPT TO of an authenticated session with an address outside the
\* serving domain is answered 550 Invalid recipient domain and leaves the
\* recipient list as it was, and no message is stored for such an address.
C11_ForeignRecipientRefused ==
  [][\A c \in Conns :
       /\ ( /\ authenticated[c]
            /\ last'.conn = c /\ last'.cmd = "RCPT"
            /\ ~EndsWithDomain(last'.arg) )
            => (last'.reply = R550 /\ rcpt_tos'[c] = rcpt_tos[c])
       /\ \A i \in 1..Len(log') : EndsWithDomain(log'[i].recipient)]_vars

\* the save_email calls of a connection, without their outcome
Calls(made) ==
  {[recipient |-> x.recipient, sender |-> x.sender, data |-> x.data] : x \in made}

DataCompleted(c) ==
  delivered[c] = {} /\ last'.conn = c /\ last'.cmd = "DATA" /\ last'.reply = R250

SameFolder(a, b) == a.recipient = b.recipient /\ a.folder = b.folder
IntegrityError == [raised |-> "IntegrityError"]

RECURSIVE Lines(_)
Lines(s) ==
  IF ~HasCRLF(s) THEN <<>>
  ELSE <<SubSeq(s, 1, FirstCRLF(s) - 1)>> \o Lines(SubSeq(s, FirstCRLF(s) + 2, Len(s)))
RECURSIVE Unterminated(_)
Unterminated(s) ==
  IF ~HasCRLF(s) THEN s ELSE Unterminated(SubSeq(s, FirstCRLF(s) + 2, Len(s)))

\* the commands of the tasks a step created on r
Dispatched(r) ==
  [i \in 1..(Len(tasks'[r]) - Len(tasks[r])) |-> tasks'[r][Len(tasks[r]) + i].command]

\* C15: a read leaves every CRLF-terminated line received so far dispatched
\* as a command, once and in arrival order, with no further input needed,
\* and keeps the bytes of the unterminated line in the buffer.
C15_EveryLineDispatched ==
  [][\A r \in RConns :
       (buffer'[r] # buffer[r] \/ ndispatched'[r] # ndispatched[r]) =>
         LET text == IF Dispatched(r) = <<>> THEN buffer'[r]
                     ELSE Dispatched(r)[1] \o <<CR, LF>> \o buffer'[r]
         IN /\ Dispatched(r) = Lines(text)
            /\ buffer'[r] = Unterminated(text)]_vars

\* task n of connection r starts in this step, or goes on after its query
Starts(r, n) ==
  /\ \E i \in DOMAIN tasks[r] : tasks[r][i].n = n /\ tasks[r][i].pc = "new"
  /\ ~\E i \in DOMAIN tasks'[r] : tasks'[r][i].n = n /\ tasks'[r][i].pc = "new"
Resumes(r, n) ==
  /\ \E i \in DOMAIN tasks[r] : tasks[r][i].n = n /\ tasks[r][i].pc = "waiting"
  /\ ~\E i \in DOMAIN tasks'[r] : tasks'[r][i].n = n
InProgress(r) == {i \in DOMAIN tasks[r] : tasks[r][i].pc = "waiting"}

\* C14: a command of a retrieval connection starts only when no earlier
\* command of that connection is still in progress, so that no two commands
\* of one connection are ever in progress together.
C14_OneCommandAtATime ==
  [][\A r \in RConns : \A n \in 1..ndispatched[r] :
       Starts(r, n) => InProgress(r) = {}]_vars

\* the response task n of connection r has written, its status line, and
\* the value of one of its data lines
Answered(r, n) == sent'[r].n = n /\ sent'[r] # sent[r]
Status(response) == response.lines[Len(response.lines)]
Has(response, name, val) ==
  \E k \in 1..(Len(response.lines) - 1) : response.lines[k] = DataLine(name, val)

\* the SELECT tasks of a connection that go on in this step
Verb(r, n) ==
  LET i == CHOOSE i \in DOMAIN tasks[r] : tasks[r][i].n = n IN VerbOf(tasks[r][i].command)
TaskOf(r, n) == tasks[r][CHOOSE i \in DOMAIN tasks[r] : tasks[r][i].n = n]

WellFormed(command) ==
  CASE VerbOf(command) = "LIST" -> Len(ArgsOf(command)) = 2
    [] VerbOf(command) = "SELECT" -> Len(ArgsOf(command)) = 1
    [] VerbOf(command) = "FETCH" -> Len(ArgsOf(command)) >= 1
    [] OTHER -> FALSE

\* C18: a FETCH that starts in a session with a logged-in user and no
\* selected folder is answered with a tagged NO naming the missing
\* selection, asks the store nothing, and leaves the logged-in user, the
\* authenticated users and the selection as they were.
C18_FetchWithoutSelect ==
  [][\A r \in RConns : \A n \in 1..ndispatched[r] :
       ( /\ Starts(r, n) /\ Verb(r, n) = "FETCH" /\ WellFormed(TaskOf(r, n).command)
         /\ current_user[r] # None /\ selected_mailbox[r] = None ) =>
         /\ Answered(r, n)
         /\ Status(sent'[r]) =
              StatusLine(TagOf(TaskOf(r, n).command), "NO",
                         "Not authenticated or no mailbox selected")
         /\ Len(sent'[r].lines) = 1
         /\ ~\E i \in DOMAIN tasks'[r] : tasks'[r][i].n = n
         /\ UNCHANGED <<current_user, selected_mailbox, authenticated_users>>
         /\ UNCHANGED storeVars]_vars

C18_Witness ==
  \E r \in RConns :
    /\ current_user[r] # None /\ selected_mailbox[r] = None
    /\ tasks[r] = <<>> /\ ndispatched[r] = 2 /\ sent[r].n = 2
    /\ Status(sent[r]).kind = "NO"
    /\ Status(sent[r]).text = "Not authenticated or no mailbox selected"

\* the messages of a folder whose body the running server can decrypt
Readable(rows) == {e \in rows : Decrypt(encode_utf8(e.content)) # Error}

C20_UnauthenticatedRefused ==
  [][\A r \in RConns : \A n \in 1..ndispatched[r] :
       ( /\ Starts(r, n) /\ Verb(r, n) \in {"LIST", "SELECT", "FETCH"}
         /\ WellFormed(TaskOf(r, n).command)
         /\ current_user[r] = None ) =>
         /\ Answered(r, n)
         /\ Status(sent'[r]) =
              StatusLine(TagOf(TaskOf(r, n).command), "NO",
                         IF Verb(r, n) = "FETCH"
                         THEN "Not authenticated or no mailbox selected"
                         ELSE "Not authenticated")
         /\ Len(sent'[r].lines) = 1
         /\ ~\E i \in DOMAIN tasks'[r] : tasks'[r][i].n = n
         /\ UNCHANGED <<current_user, selected_mailbox, authenticated_users>>
         /\ UNCHANGED storeVars]_vars

C20_Witness ==
  \E r \in RConns :
    /\ current_user[r] = None /\ authenticated_users[r] = {}
    /\ tasks[r] = <<>> /\ ndispatched[r] = 1 /\ sent[r].n = 1
    /\ Status(sent[r]).kind = "NO"
    /\ Status(sent[r]).text = "Not authenticated"

\* the credentials of a LOGIN line are those of a user
Verifies(command) ==
  \E u \in UserTable :
    /\ u.email = ArgsOf(command)[1]
    /\ checkpw(Str(<<ArgsOf(command)[2]>>), u.password_hash)

\* C21: a LOGIN is answered in whatever state the session is. With
\* credentials that verify the answer is a tagged OK and the session has
\* the given name as its user; otherwise it is a tagged NO and the user,
\* the authenticated users and the selected folder stay as they were. Only
\* a failing query turns credentials that verify into a NO.
C21_LoginAnyState ==
  [][\A r \in RConns : \A n \in 1..ndispatched[r] :
       (Resumes(r, n) /\ Verb(r, n) = "LOGIN" /\ ~closed[r]) =>
         LET command == TaskOf(r, n).command
             name == ArgsOf(command)[1]
         IN /\ Answered(r, n)
            /\ Status(sent'[r]).tag = TagOf(command)
            /\ Status(sent'[r]).kind \in {"OK", "NO"}
            /\ Status(sent'[r]).kind = "OK" =>
                 /\ Verifies(command)
                 /\ current_user'[r] = name
                 /\ name \in authenticated_users'[r]
            /\ Status(sent'[r]).kind = "NO" =>
                 /\ UNCHANGED <<current_user, selected_mailbox, authenticated_users>>
                 /\ Verifies(command) => Has(sent'[r], "Server error", None)]_vars

C21_Witness ==
  \E r \in RConns :
    /\ tasks[r] = <<>> /\ ndispatched[r] = 3 /\ sent[r].n = 3
    /\ Status(sent[r]).kind = "NO"
    /\ Has(sent[r], "Invalid credentials", None)
    /\ current_user[r] = Alice
    /\ selected_mailbox[r] = Word("Archive")

\* C22: a LOGOUT is carried out in whatever state the session is, and when
\* it is over the session has no user, no entry among its authenticated
\* users and no selected folder, the tagged closing response with its BYE
\* line has been written, and the transport is closed.
C22_LogoutClearsSession ==
  [][\A r \in RConns : \A n \in 1..ndispatched[r] :
       (Starts(r, n) /\ Verb(r, n) = "LOGOUT") =>
         /\ current_user'[r] = None
         /\ authenticated_users'[r] = {}
         /\ selected_mailbox'[r] = None
         /\ Answered(r, n)
         /\ Status(sent'[r]) = StatusLine(TagOf(TaskOf(r, n).command), "OK", "")
         /\ Has(sent'[r], "BYE IMAP4rev1 Server logging out", None)
         /\ closed'[r]]_vars

\* a line that is blank, has a tag and no verb, or has a known verb with a
\* number of arguments its handler does not take
Malformed(command) ==
  \/ Len(Split(command)) < 2
  \/ VerbOf(command) = "LOGIN" /\ Len(ArgsOf(command)) # 2
  \/ VerbOf(command) \in {"LIST", "SELECT", "FETCH"} /\ ~WellFormed(command)

\* C23: a malformed command line is answered with an error status line,
\* leaves the user and the selected folder as they were, and does not close
\* the transport.
C23_MalformedLineAnswered ==
  [][\A r \in RConns : \A n \in 1..ndispatched[r] :
       (Starts(r, n) /\ Malformed(TaskOf(r, n).command)) =>
         /\ Answered(r, n)
         /\ Status(sent'[r]).kind \in {"NO", "BAD"}
         /\ UNCHANGED <<current_user, selected_mailbox, authenticated_users>>
         /\ closed'[r] = closed[r]]_vars

\* C24: every response a command causes ends with one status line, which
\* starts with the tag of that command, and every line before it is an
\* untagged line prefixed "*", whether the outcome is OK, NO or BAD.
C24_TaggedStatusLineLast ==
  [][\A r \in RConns : \A n \in 1..ndispatched[r] :
       Answered(r, n) =>
         LET lines == sent'[r].lines
         IN /\ Len(lines) >= 1
            /\ ~lines[Len(lines)].star
            /\ lines[Len(lines)].tag = TagOf(TaskOf(r, n).command)
            /\ lines[Len(lines)].kind \in {"OK", "NO", "BAD"}
            /\ \A k \in 1..(Len(lines) - 1) : lines[k].star]_vars

C24_Witness ==
  \E r \in RConns :
    /\ sent[r].n = 2
    /\ Len(sent[r].lines) = 2
    /\ sent[r].lines[1].star
    /\ Status(sent[r]) = StatusLine(Tag(2), "NO", "")

KnownVerbs == {"LOGIN", "LIST", "SELECT", "FETCH", "LOGOUT"}

\* C25: a command whose verb is not one of the known ones is answered with
\* a tagged BAD, changes neither the user nor the selected folder, and
\* leaves the connection open.
C25_UnknownVerbBad ==
  [][\A r \in RConns : \A n \in 1..ndispatched[r] :
       ( /\ Starts(r, n) /\ Len(Split(TaskOf(r, n).command)) >= 2
         /\ Verb(r, n) \notin KnownVerbs ) =>
         /\ Answered(r, n)
         /\ Status(sent'[r]) =
              StatusLine(TagOf(TaskOf(r, n).command), "BAD", "Unknown command")
         /\ Len(sent'[r].lines) = 1
         /\ ~\E i \in DOMAIN tasks'[r] : tasks'[r][i].n = n
         /\ UNCHANGED <<current_user, selected_mailbox, authenticated_users>>
         /\ ~closed'[r]]_vars

C25_Witness ==
  \E r \in RConns :
    /\ sent[r].n = 3 /\ ndispatched[r] = 3
    /\ Status(sent[r]).kind = "BAD"
    /\ current_user[r] = Alice
    /\ selected_mailbox[r] = Word("INBOX")
    /\ ~closed[r]

\* the address is that of a user
KnownUser(address) == \E u \in UserTable : u.email = address

FlagsUpdated == got' # None /\ "op" \in DOMAIN got' /\ got'.op = "update_flags"

WrongPassword == <<Alice, Text("pwB")>>
UnknownAddress == <<Eve, Text("pwA")>>
PlainOf(pair) == [parts |-> <<"PLAIN", B64(<<Text("")>> \o pair)>>]
\* the outcome of a refused AUTH LOGIN password on connection c
LoginRefused(c) ==
  /\ UNCHANGED <<authenticated, username, auth_username>>
  /\ auth_login_stage'[c] = "None"
  /\ last'.conn = c /\ last'.cmd = "AUTH" /\ last'.mech = "LOGIN"
  /\ last'.reply = R535
\* the outcome of a refused LOGIN, task n of retrieval connection r
ImapLoginRefused(r, n) ==
  /\ Answered(r, n)
  /\ Status(sent'[r]) = StatusLine(TagOf(TaskOf(r, n).command), "NO", "")
  /\ Len(sent'[r].lines) = 2
  /\ \/ Has(sent'[r], "Invalid credentials", None)
     \/ Has(sent'[r], "Server error", None)
  /\ UNCHANGED <<current_user, selected_mailbox, authenticated_users, closed>>

\* C30: an address no user has and a known address with a wrong password
\* get the same result from the verifier, the same reply and the same
\* session state, over AUTH PLAIN, over AUTH LOGIN and over the retrieval
\* LOGIN: a step that refuses the one is a step that refuses the other.
C30_UnknownUserLooksLikeWrongPassword ==
  [][/\ \A dbok \in BOOLEAN :
          authenticate_user(Str(<<UnknownAddress[1]>>), Str(<<UnknownAddress[2]>>), dbok)
            = authenticate_user(Str(<<WrongPassword[1]>>), Str(<<WrongPassword[2]>>), dbok)
     /\ \A c \in Conns :
          /\ (handle_AUTH(c, PlainOf(WrongPassword)) /\ UNCHANGED imapVars)
               <=> (handle_AUTH(c, PlainOf(UnknownAddress)) /\ UNCHANGED imapVars)
          /\ \A pair \in {WrongPassword, UnknownAddress} :
               ( /\ auth_login_stage[c] = "password"
                 /\ auth_username[c] = Str(<<pair[1]>>)
                 /\ handle_AUTH(c, [parts |-> <<"LOGIN", B64(<<pair[2]>>)>>])
                 /\ UNCHANGED imapVars ) => LoginRefused(c)
     /\ \A r \in RConns : \A n \in 1..ndispatched[r] :
          ( /\ Resumes(r, n) /\ Verb(r, n) = "LOGIN"
            /\ <<ArgsOf(TaskOf(r, n).command)[1], ArgsOf(TaskOf(r, n).command)[2]>>
                 \in {WrongPassword, UnknownAddress} ) => ImapLoginRefused(r, n)]_vars

C30_Witness ==
  \E c \in Conns :
    /\ auth_username[c] = Str(<<Eve>>)
    /\ auth_login_stage[c] = "None"
    /\ ~authenticated[c]
    /\ last.conn = c /\ last.mech = "LOGIN" /\ last.event = "rejected"
    /\ last.reply = R535

\* a step of connection c in which the user lookup of an AUTH raises
LookupFails(c) ==
  /\ \E arg \in AuthArgs : handle_AUTH(c, arg)
  /\ last'.conn = c /\ last'.event = Refused(FALSE)
  /\ UNCHANGED imapVars
\* a step of retrieval connection r in which the user lookup of the LOGIN
\* of task n raises
LoginLookupFails(r, n) ==
  /\ Resumes(r, n) /\ Verb(r, n) = "LOGIN"
  /\ \E i \in DOMAIN tasks[r] : tasks[r][i].n = n /\ handle_login(r, i, FALSE)

\* C31: when the user lookup fails the verifier answers false and nothing
\* is raised. An AUTH is then answered 535 and leaves the session
\* unauthenticated, its identity, the user name of a LOGIN exchange and the
\* envelope as they were, the LOGIN stage as it was or reset; a retrieval
\* LOGIN is answered with a tagged NO and leaves the user, the selected
\* folder and the authenticated users as they were and the transport open.
C31_LookupFailureRefused ==
  [][/\ \A user \in {Str(<<a>>) : a \in Addresses} :
          \A password \in {Str(<<p>>) : p \in Passwords} :
            authenticate_user(user, password, FALSE) = FALSE
     /\ \A c \in Conns :
          LookupFails(c) =>
            /\ last'.reply = R535
            /\ ~authenticated'[c]
            /\ UNCHANGED <<username, auth_username, envelopeVars, server_authenticated>>
            /\ auth_login_stage'[c] \in {auth_login_stage[c], "None"}
     /\ \A r \in RConns : \A n \in 1..ndispatched[r] :
          LoginLookupFails(r, n) =>
            /\ UNCHANGED <<current_user, selected_mailbox, authenticated_users, closed>>
            /\ ~closed[r] =>
                 /\ Answered(r, n)
                 /\ Status(sent'[r]) = StatusLine(TagOf(TaskOf(r, n).command), "NO", "")]_vars

\* the AUTH arguments that name no mechanism, and those that name one the
\* server does not know
NoMechanism(arg) == arg = None \/ arg.parts[1] = ""
UnknownMechanism(arg) ==
  arg # None /\ arg.parts[1] # "" /\ Upper(arg.parts[1]) \notin {"PLAIN", "LOGIN"}
\* connection c handles AUTH with argument arg in this step
HandlesAuth(c, arg) == handle_AUTH(c, arg) /\ last'.conn = c /\ UNCHANGED imapVars

\* C32: an AUTH that names no mechanism is answered 501 and an AUTH that
\* names a mechanism other than PLAIN and LOGIN is answered 504; both leave
\* the authenticated flag, the identity and the LOGIN stage as they were.
C32_NoOrUnknownMechanism ==
  [][\A c \in Conns : \A arg \in AuthArgs \cup {BlankArg} :
       /\ (NoMechanism(arg) /\ HandlesAuth(c, arg)) =>
            /\ last'.reply = R501
            /\ UNCHANGED <<authenticated, username, auth_login_stage>>
       /\ (UnknownMechanism(arg) /\ HandlesAuth(c, arg)) =>
            /\ last'.reply = R504
            /\ UNCHANGED <<authenticated, username, auth_login_stage>>]_vars

\* the session of connection c has no AUTH exchange pending and is not
\* authenticated: the state CONNECTED
Connected(c) == ~authenticated[c] /\ auth_login_stage[c] \in {"unset", "None"}

\* C33: AUTH PLAIN without an initial response is answered with the empty
\* 334 prompt and leaves the session waiting for the credentials: a session
\* that was in the state CONNECTED is no longer in it, so that the line that
\* follows is taken as the answer to the prompt.
C33_PlainPromptPending ==
  [][\A c \in Conns :
       HandlesAuth(c, [parts |-> <<"PLAIN">>]) =>
         /\ last'.reply = R334
         /\ Connected(c) => ~Connected(c)']_vars

\* the stage of the LOGIN exchange of connection c, before the first one
\* 'username'
LoginStage(c) == IF auth_login_stage[c] = "unset" THEN "username" ELSE auth_login_stage[c]
LoginArg(credentials) == [parts |-> <<"LOGIN", credentials>>]

\* C34: AUTH LOGIN asks for the user name first and, once it has one, for
\* the password, the session recording which of the two is pending; when
\* the text sent at either stage cannot be decoded the exchange ends with
\* 535, the session is not authenticated and no stage is pending.
C34_LoginTwoStepsAndAbort ==
  [][\A c \in Conns :
       /\ (LoginStage(c) = "username" /\ HandlesAuth(c, [parts |-> <<"LOGIN">>])) =>
            /\ last'.reply = R334User
            /\ auth_login_stage'[c] = "username"
       /\ \A cr \in LoginCredentials :
            /\ ( /\ LoginStage(c) = "username" /\ b64decode_utf8(cr) # Error
                 /\ HandlesAuth(c, LoginArg(cr)) ) =>
                 /\ last'.reply = R334Pass
                 /\ auth_login_stage'[c] = "password"
                 /\ auth_username'[c] = b64decode_utf8(cr)
            /\ ( /\ LoginStage(c) \in {"username", "password"} /\ b64decode_utf8(cr) = Error
                 /\ HandlesAuth(c, LoginArg(cr)) ) =>
                 /\ last'.reply = R535
                 /\ ~authenticated'[c]
                 /\ auth_login_stage'[c] = "None"]_vars

\* submission connection c handles an AUTH in this step; a task of
\* retrieval connection r starts or goes on in this step
AuthStep(c) ==
  /\ last'.conn = c /\ UNCHANGED imapVars
  /\ \E arg \in AuthArgs \cup {BlankArg} : handle_AUTH(c, arg)
TaskStep(r) == \E n \in 1..ndispatched[r] : Starts(r, n) \/ Resumes(r, n)

\* C35: a command handled on one connection leaves the session of every
\* other connection as it was: whether it is authenticated, under which
\* identity, its AUTH stage, its users and its selected folder.
C35_SessionsNotShared ==
  [][/\ \A c \in Conns : \A d \in Conns \ {c} :
          AuthStep(c) =>
            /\ authenticated'[d] = authenticated[d]
            /\ username'[d] = username[d]
            /\ auth_login_stage'[d] = auth_login_stage[d]
            /\ auth_username'[d] = auth_username[d]
     /\ \A r \in RConns : \A q \in RConns \ {r} :
          TaskStep(r) =>
            /\ current_user'[q] = current_user[q]
            /\ authenticated_users'[q] = authenticated_users[q]
            /\ selected_mailbox'[q] = selected_mailbox[q]
     /\ (\E c \in Conns : AuthStep(c)) =>
          UNCHANGED <<current_user, authenticated_users, selected_mailbox>>
     /\ (\E r \in RConns : TaskStep(r)) =>
          UNCHANGED <<authenticated, username, auth_login_stage, auth_username>>]_vars

C35_Witness ==
  /\ current_user["r1"] = Alice /\ selected_mailbox["r1"] = Word("INBOX")
  /\ current_user["r2"] = Bob /\ selected_mailbox["r2"] = None
  /\ tasks["r1"] = <<>> /\ tasks["r2"] = <<>>
  /\ sent["r2"].n = 1 /\ Status(sent["r2"]).kind = "OK"

\* C36: when a LOGIN exchange of a session is over, whether verified,
\* rejected or aborted, an AUTH LOGIN on that session starts a new one: it
\* is answered with the user name prompt and the session waits for the
\* user name.
C36_LoginStartsAfresh ==
  [][\A c \in Conns :
       (auth_login_stage[c] = "None" /\ HandlesAuth(c, [parts |-> <<"LOGIN">>])) =>
         /\ last'.reply = R334User
         /\ auth_login_stage'[c] = "username"]_vars

\* the UIDNEXT a response reports, 0 when it reports none
UidNextOf(response) ==
  IF \E k \in 1..(Len(response.lines) - 1) :
       \E n \in 1..(UidOffset + MaxEmails + 2) :
         response.lines[k] = DataLine("UIDNEXT", [n |-> n])
  THEN CHOOSE n \in 1..(UidOffset + MaxEmails + 2) : Has(response, "UIDNEXT", [n |-> n])
  ELSE 0

FetchedUids(response) ==
  { response.lines[k].val.uid :
      k \in { j \in 1..(Len(response.lines) - 1) : response.lines[j].name = "FETCH" } }

VerifiedFor(c, arg, u) ==
  LET decoded == b64decode_utf8(arg.parts[2])
  IN /\ Len(arg.parts) = 2 /\ decoded # Error
     /\ IF Upper(arg.parts[1]) = "PLAIN"
        THEN /\ Len(decoded.fields) = 3
             /\ decoded.fields[2] = u.email
             /\ checkpw(Str(<<decoded.fields[3]>>), u.password_hash)
        ELSE /\ Upper(arg.parts[1]) = "LOGIN"
             /\ auth_login_stage[c] = "password"
             /\ auth_username[c] = Str(<<u.email>>)
             /\ checkpw(decoded, u.password_hash)

\* C40: a session that is authenticated has as identity a user of the
\* users table. The flag and the identity change only in an AUTH that is
\* answered 235, whose credentials verify for that user, the password of a
\* LOGIN against the user name of its own exchange, however PLAIN and LOGIN
\* commands are mixed; an AUTH answered otherwise leaves both as they were.
C40_AuthenticatedIsVerified ==
  [][\A c \in Conns :
       /\ authenticated'[c] => ValidUser(username'[c])
       /\ \A arg \in AuthArgs \cup {BlankArg} :
            HandlesAuth(c, arg) =>
              IF last'.reply = R235
              THEN /\ authenticated'[c]
                   /\ arg # None
                   /\ \E u \in UserTable :
                        /\ username'[c] = Str(<<u.email>>)
                        /\ VerifiedFor(c, arg, u)
              ELSE /\ authenticated'[c] = authenticated[c]
                   /\ username'[c] = username[c]]_vars

C40_Witness ==
  \E c \in Conns :
    /\ authenticated[c] /\ username[c] = Str(<<Bob>>)
    /\ auth_username[c] = Str(<<Alice>>) /\ auth_login_stage[c] = "password"
    /\ last.conn = c /\ last.mech = "PLAIN" /\ last.event = "verified"

==============================================================================
